---- MODULE Spec2Model ----
(***************************************************************************)
(* Model of src/home_loan_calculator.py: calculate_emi_and_schedule and    *)
(* calculate_monthly_schedule.                                             *)
(*                                                                         *)
(* Amounts are whole rupees.  The program computes in binary floating      *)
(* point; here every arithmetic operation that can produce a fraction      *)
(* (multiplication by the monthly rate, the power (1+r)^n, the divisions   *)
(* of the EMI formula) rounds its result to the nearest representable      *)
(* value, as a floating-point operation does, only with a coarser grid:    *)
(* one rupee for amounts, 1/PowScale for the growth factor.                *)
(***************************************************************************)
EXTENDS Integers, Sequences, FiniteSets

(* ---------------------------- bounds --------------------------------- *)

MaxTenure == 2

PowScale == 10000

(* ---------------------------- inputs --------------------------------- *)

HomeValues == {1000000}

DownPaymentPercentages == {20, 100}

InterestRates == {0, 12}

Tenures == 1..MaxTenure

LoanInsurances == {0, 50000}

MonthlyPrepayments == {0, 320000}

QuarterlyPrepayments == {0, 150000}

OneTimePrepayments == {0, 200000, 800000, 1000000}

StartYears == {2024}

VARIABLES
    home_value, down_payment_percentage, interest_rate, loan_tenure_years,
    loan_insurance, prepayments_monthly, prepayments_quarterly,
    prepayments_one_time, start_year,
    initial_principal, loan_amount, total_months, emi,
    balance, current_month, data_rows,
    df_yearly, summary_dict, pc

inputs == <<home_value, down_payment_percentage, interest_rate,
            loan_tenure_years, loan_insurance, prepayments_monthly,
            prepayments_quarterly, prepayments_one_time, start_year>>

vars == <<home_value, down_payment_percentage, interest_rate,
          loan_tenure_years, loan_insurance, prepayments_monthly,
          prepayments_quarterly, prepayments_one_time, start_year,
          initial_principal, loan_amount, total_months, emi,
          balance, current_month, data_rows, df_yearly, summary_dict, pc>>

(* ------------------------- arithmetic -------------------------------- *)

\* a / b rounded to the nearest integer (a >= 0, b > 0)
RoundDiv(a, b) == (2 * a + b) \div (2 * b)

\* x * monthly_interest_rate, monthly_interest_rate = (interest_rate/100)/12
MulRate(x, rate) == RoundDiv(x * rate, 1200)

\* (1 + monthly_interest_rate) ** n, in units of 1/PowScale
RECURSIVE PowFactor(_, _)
PowFactor(rate, n) ==
    IF n = 0 THEN PowScale
    ELSE RoundDiv(PowFactor(rate, n - 1) * (1200 + rate), 1200)

\* the EMI of section 2 of calculate_emi_and_schedule
ComputeEmi(amount, rate, months) ==
    IF months = 0 THEN 0
    ELSE IF rate = 0 THEN RoundDiv(amount, months)
    ELSE LET pw == PowFactor(rate, months)
         IN  RoundDiv(RoundDiv(MulRate(amount, rate) * pw, PowScale) * PowScale,
                      pw - PowScale)

(* ---------------------- monthly simulation --------------------------- *)

LoopCondNoBalance(b, m, tm) == m <= tm

\* while balance > 0 and current_month <= total_months
LoopCond(b, m, tm) == b > 0 /\ m <= tm

ClampBalanceNone(b) == b

\* if balance < 0: balance = 0
ClampBalance(b) == IF b < 0 THEN 0 ELSE b

PrepayThisMonthEveryFourth(m, pm, pq) ==
    (IF pm > 0 THEN pm ELSE 0) + (IF (m % 4 = 0) /\ (pq > 0) THEN pq ELSE 0)

\* prepay_this_month
PrepayThisMonth(m, pm, pq) ==
    (IF pm > 0 THEN pm ELSE 0) + (IF (m % 3 = 0) /\ (pq > 0) THEN pq ELSE 0)

\* the row appended by one iteration of the loop
MonthRow(b, m) ==
    LET interest_payment  == MulRate(b, interest_rate)
        principal_payment == emi - interest_payment
        prepay_this_month == PrepayThisMonth(m, prepayments_monthly,
                                             prepayments_quarterly)
    IN  [Year          |-> start_year + ((m - 1) \div 12),
         MonthNum      |-> m,
         InterestPaid  |-> interest_payment,
         PrincipalPaid |-> principal_payment,
         Prepayment    |-> prepay_this_month,
         OldBalance    |-> b,
         NewBalance    |-> ClampBalance(b - principal_payment - prepay_this_month)]

(* ----------------------- yearly aggregation -------------------------- *)

RECURSIVE SeqSum(_)
SeqSum(s) == IF s = <<>> THEN 0 ELSE s[1] + SeqSum(Tail(s))

\* the group of monthly rows of one year (groupby('Year'))
RowsOfYear(rows, y) == SelectSeq(rows, LAMBDA r : r.Year = y)

FinalBalanceFirst(x) == x[1].NewBalance

\* x['NewBalance'].iloc[-1]
FinalBalanceOf(x) == x[Len(x)].NewBalance

aggregator(x) ==
    [PrincipalSum  |-> SeqSum([i \in 1..Len(x) |-> x[i].PrincipalPaid]),
     PrepaymentSum |-> SeqSum([i \in 1..Len(x) |-> x[i].Prepayment]),
     InterestSum   |-> SeqSum([i \in 1..Len(x) |-> x[i].InterestPaid]),
     FinalBalance  |-> FinalBalanceOf(x)]

\* left merge of all_years with the groups, fillna(0)
MergedYear(rows, y) ==
    IF RowsOfYear(rows, y) = <<>>
    THEN [PrincipalSum |-> 0, PrepaymentSum |-> 0, InterestSum |-> 0,
          FinalBalance |-> 0]
    ELSE aggregator(RowsOfYear(rows, y))

\* (cumulative / initial_principal) * 100 clipped at 100, in whole percent
PctLoanPaid(cum, ip) ==
    IF ip > 0
    THEN (IF (cum * 100) \div ip > 100 THEN 100 ELSE (cum * 100) \div ip)
    ELSE 100

YearlySchedule(rows) ==
    LET merged == [i \in 1..loan_tenure_years |->
                      MergedYear(rows, start_year + i - 1)]
        cum(i) == SeqSum([j \in 1..i |-> merged[j].PrincipalSum])
                  + SeqSum([j \in 1..i |-> merged[j].PrepaymentSum])
    IN  [i \in 1..loan_tenure_years |->
            [Year          |-> start_year + i - 1,
             PrincipalSum  |-> merged[i].PrincipalSum,
             PrepaymentSum |-> merged[i].PrepaymentSum,
             InterestSum   |-> merged[i].InterestSum,
             FinalBalance  |-> merged[i].FinalBalance,
             CumulativePrincipalPrepay |-> cum(i),
             PctLoanPaid   |-> PctLoanPaid(cum(i), initial_principal)]]

NoSummary == [principal |-> 0, prepayments |-> 0, interest |-> 0]

Summary(yearly) ==
    [principal   |-> SeqSum([i \in 1..Len(yearly) |-> yearly[i].PrincipalSum]),
     prepayments |-> SeqSum([i \in 1..Len(yearly) |-> yearly[i].PrepaymentSum])
                     + prepayments_one_time,
     interest    |-> SeqSum([i \in 1..Len(yearly) |-> yearly[i].InterestSum])]

(* --------------------------- behaviour ------------------------------- *)

Init ==
    /\ home_value = 0
    /\ down_payment_percentage = 0
    /\ interest_rate = 0
    /\ loan_tenure_years = 0
    /\ loan_insurance = 0
    /\ prepayments_monthly = 0
    /\ prepayments_quarterly = 0
    /\ prepayments_one_time = 0
    /\ start_year = 0
    /\ initial_principal = 0
    /\ loan_amount = 0
    /\ total_months = 0
    /\ emi = 0
    /\ balance = 0
    /\ current_month = 1
    /\ data_rows = <<>>
    /\ df_yearly = <<>>
    /\ summary_dict = NoSummary
    /\ pc = "start"

\* the call of calculate_emi_and_schedule with the values of the form:
\* sections 1 and 2, and the entry of calculate_monthly_schedule
Setup ==
    /\ pc = "start"
    /\ home_value' \in HomeValues
    /\ down_payment_percentage' \in DownPaymentPercentages
    /\ interest_rate' \in InterestRates
    /\ loan_tenure_years' \in Tenures
    /\ loan_insurance' \in LoanInsurances
    /\ prepayments_monthly' \in MonthlyPrepayments
    /\ prepayments_quarterly' \in QuarterlyPrepayments
    /\ prepayments_one_time' \in OneTimePrepayments
    /\ start_year' \in StartYears
    /\ LET down_payment_value ==
               RoundDiv(home_value' * down_payment_percentage', 100)
           ip == home_value' - down_payment_value - loan_insurance'
           la == IF ip - prepayments_one_time' < 0 THEN 0
                 ELSE ip - prepayments_one_time'
       IN  /\ initial_principal' = ip
           /\ loan_amount' = la
           /\ total_months' = loan_tenure_years' * 12
           /\ emi' = ComputeEmi(la, interest_rate', loan_tenure_years' * 12)
           /\ balance' = la
    /\ data_rows' = <<>>
    /\ current_month' = 1
    /\ pc' = "loop"
    /\ UNCHANGED <<df_yearly, summary_dict>>

\* one iteration of the while loop of calculate_monthly_schedule
MonthStep ==
    /\ pc = "loop"
    /\ LoopCond(balance, current_month, total_months)
    /\ LET row == MonthRow(balance, current_month)
       IN  /\ balance' = row.NewBalance
           /\ data_rows' = Append(data_rows, row)
    /\ current_month' = current_month + 1
    /\ UNCHANGED <<inputs, initial_principal, loan_amount, total_months, emi,
                   df_yearly, summary_dict, pc>>

\* the loop ends with rows: sections 4 and 5, and the summary
Aggregate ==
    /\ pc = "loop"
    /\ ~LoopCond(balance, current_month, total_months)
    /\ data_rows # <<>>
    /\ df_yearly' = YearlySchedule(data_rows)
    /\ summary_dict' = Summary(YearlySchedule(data_rows))
    /\ pc' = "done"
    /\ UNCHANGED <<inputs, initial_principal, loan_amount, total_months, emi,
                   balance, current_month, data_rows>>

\* the loop ends without rows: the empty DataFrame has no 'Year' column and
\* df_monthly['Year'] raises KeyError
EmptyScheduleFault ==
    /\ pc = "loop"
    /\ ~LoopCond(balance, current_month, total_months)
    /\ data_rows = <<>>
    /\ pc' = "fault"
    /\ UNCHANGED <<inputs, initial_principal, loan_amount, total_months, emi,
                   balance, current_month, data_rows, df_yearly, summary_dict>>

Next == Setup \/ MonthStep \/ Aggregate \/ EmptyScheduleFault

Spec == Init /\ [][Next]_vars

\* the call is made, and the loop body runs whenever the loop condition holds
FairSpec == Init /\ [][Next]_vars /\ WF_vars(Setup) /\ WF_vars(MonthStep)

TypeOK ==
    /\ pc \in {"start", "loop", "done", "fault"}
    /\ current_month \in 1..(total_months + 1)
    /\ loan_amount >= 0
    /\ emi >= 0
    /\ Len(data_rows) = current_month - 1

(* ----------------------------- claims -------------------------------- *)

Min(a, b) == IF a < b THEN a ELSE b

Max(a, b) == IF a > b THEN a ELSE b

RowIndexes == 1..Len(data_rows)

\* the balance a month opens with: the amortized principal, then the
\* previous month's closing balance
OpeningBalance(i) == IF i = 1 THEN loan_amount ELSE data_rows[i - 1].NewBalance

\* C1: in every emitted month the closing balance is >= 0 and <= the opening
\* balance, and the opening balance is the previous closing balance (the
\* amortized principal in month 1): the balance never increases and never
\* goes negative.
C1_BalanceMonotoneNonNegative ==
    \A i \in RowIndexes :
        /\ data_rows[i].OldBalance = OpeningBalance(i)
        /\ data_rows[i].NewBalance >= 0
        /\ data_rows[i].NewBalance <= data_rows[i].OldBalance

\* a month whose deductions exceed the opening balance, closed at 0
C1_Witness ==
    \E i \in RowIndexes :
        /\ i > 1
        /\ data_rows[i].OldBalance - data_rows[i].PrincipalPaid
             - data_rows[i].Prepayment < 0
        /\ data_rows[i].NewBalance = 0

TotalRecordedPaid ==
    SeqSum([i \in RowIndexes |-> data_rows[i].PrincipalPaid])
    + SeqSum([i \in RowIndexes |-> data_rows[i].Prepayment])

\* C2: the recorded principal portions plus the recorded periodic
\* prepayments never exceed the amortized principal (up to one currency
\* unit of rounding), and equal it within one unit when the loan is paid
\* off.
C2_Conservation ==
    /\ TotalRecordedPaid <= loan_amount + 1
    /\ (pc = "done" /\ data_rows[Len(data_rows)].NewBalance = 0)
          => TotalRecordedPaid >= loan_amount - 1

\* C3: every row's principal portion is capped at the opening balance:
\* PrincipalPaid = min(emi - InterestPaid, OldBalance).
C3_PrincipalCapped ==
    \A i \in RowIndexes :
        /\ data_rows[i].PrincipalPaid
             = Min(emi - data_rows[i].InterestPaid, data_rows[i].OldBalance)
        /\ data_rows[i].PrincipalPaid <= data_rows[i].OldBalance

Finished == pc \in {"done", "fault"}

\* C4: when the principal after deductions is <= 0 the calculation does not
\* fault: it ends with emi = 0, an empty monthly schedule and a yearly
\* schedule of tenure rows with zero flows and zero balance.
C4_DegenerateLoanReported ==
    (Finished /\ initial_principal - prepayments_one_time <= 0) =>
        /\ pc = "done"
        /\ emi = 0
        /\ data_rows = <<>>
        /\ Len(df_yearly) = loan_tenure_years
        /\ \A i \in 1..Len(df_yearly) :
              /\ df_yearly[i].PrincipalSum = 0
              /\ df_yearly[i].PrepaymentSum = 0
              /\ df_yearly[i].InterestSum = 0
              /\ df_yearly[i].FinalBalance = 0

\* C5: every calculation ends with a yearly schedule of exactly tenure rows,
\* one per year of [start_year, start_year + tenure), in increasing order.
C5_YearlyRowCount ==
    Finished =>
        /\ pc = "done"
        /\ Len(df_yearly) = loan_tenure_years
        /\ \A i \in 1..Len(df_yearly) : df_yearly[i].Year = start_year + i - 1

\* C6: a year of the yearly schedule without monthly rows has zero sums and
\* zero ending balance, and it follows a year whose ending balance is 0.
C6_EmptyYearsAreZeroAfterPayoff ==
    pc = "done" =>
        \A i \in 1..Len(df_yearly) :
            RowsOfYear(data_rows, df_yearly[i].Year) = <<>> =>
                /\ df_yearly[i].PrincipalSum = 0
                /\ df_yearly[i].PrepaymentSum = 0
                /\ df_yearly[i].InterestSum = 0
                /\ df_yearly[i].FinalBalance = 0
                /\ i > 1
                /\ df_yearly[i - 1].FinalBalance = 0

\* a finished schedule with a year after the payoff, following a year in
\* which the loan was still being paid after its first month
C6_Witness ==
    /\ pc = "done"
    /\ \E i \in 1..Len(df_yearly) :
          /\ RowsOfYear(data_rows, df_yearly[i].Year) = <<>>
          /\ i > 1
          /\ Len(RowsOfYear(data_rows, df_yearly[i - 1].Year)) > 1

\* what the balance absorbed of a row's prepayment, the principal portion
\* being deducted first
AbsorbedPrepayment(r) ==
    Min(r.Prepayment, Max(r.OldBalance - Max(r.PrincipalPaid, 0), 0))

\* C7: the reported total of prepayments is the one-time prepayment plus the
\* periodic prepayments, each counted up to the amount by which it reduced
\* the outstanding balance.
C7_PrepaymentsAsAbsorbed ==
    pc = "done" =>
        summary_dict.prepayments
          = Min(prepayments_one_time, Max(initial_principal, 0))
            + SeqSum([i \in RowIndexes |-> AbsorbedPrepayment(data_rows[i])])

\* the call has been made and the loop condition is false
LoopExited == pc # "start" /\ ~LoopCond(balance, current_month, total_months)

C8_RowsStopAtZero ==
    /\ Len(data_rows) <= total_months
    /\ \A i \in RowIndexes :
          /\ data_rows[i].MonthNum = i
          /\ i < Len(data_rows) => data_rows[i].NewBalance # 0

\* C8: the loop terminates; the rows are months 1..n, n <= total_months,
\* and no row follows a row whose closing balance is 0.
C8_LoopTerminatesAndStopsAtZero ==
    []C8_RowsStopAtZero /\ <>LoopExited

\* the loop has ended before total_months on a closing balance of 0
C8_Witness ==
    /\ pc = "done"
    /\ Len(data_rows) < total_months
    /\ Len(data_rows) > 1
    /\ data_rows[Len(data_rows)].NewBalance = 0

\* C9: every row's interest is the monthly rate applied to the opening
\* balance of the month, and its prepayment is the monthly prepayment plus,
\* exactly in months divisible by 3, the quarterly prepayment.
C9_InterestOnOpeningBalance ==
    \A i \in RowIndexes :
        /\ data_rows[i].OldBalance = OpeningBalance(i)
        /\ data_rows[i].InterestPaid = MulRate(OpeningBalance(i), interest_rate)
        /\ data_rows[i].Prepayment
             = prepayments_monthly
               + (IF data_rows[i].MonthNum % 3 = 0
                  THEN prepayments_quarterly ELSE 0)

\* four months at a positive rate with a quarterly prepayment, paid in
\* month 3 and not in month 4
C9_Witness ==
    /\ Len(data_rows) >= 4
    /\ interest_rate > 0
    /\ prepayments_quarterly > 0
    /\ data_rows[3].Prepayment = prepayments_monthly + prepayments_quarterly
    /\ data_rows[4].Prepayment = prepayments_monthly
    /\ data_rows[4].InterestPaid > 0
    /\ data_rows[4].InterestPaid < data_rows[3].InterestPaid

\* C10: '% of Loan Paid' is 100 in every year whose ending balance is 0.
C10_PaidOffYearsShowHundredPercent ==
    pc = "done" =>
        \A i \in 1..Len(df_yearly) :
            df_yearly[i].FinalBalance = 0 => df_yearly[i].PctLoanPaid = 100

====
